---- MODULE Spec2Model ----
(***************************************************************************)
(* AI Character Animation Studio (src/app.py): a Streamlit script.         *)
(*                                                                         *)
(* Every user event (a widget change or a button click) reruns the whole   *)
(* script from top to bottom.  The widget values and st.session_state      *)
(* survive from one run to the next; a button reads True only in the run   *)
(* its own click caused; a widget that a run does not render loses its     *)
(* value.  One action of the model is one user event together with the     *)
(* complete script run it causes.                                          *)
(*                                                                         *)
(* Conventions: a prompt is a sequence of characters; a float tolerance    *)
(* is written in tenths (0.5 is 5, 0.7 is 7, 0.9 is 9); an uploaded file   *)
(* is a decodable image named by a string; Python's None is None.          *)
(* The sliders "Video Duration", "Show Advanced Options" and "Motion Type" *)
(* are left out: the script never reads their values.                      *)
(*                                                                         *)
(* Every action runs the whole script, all four tabs included.  The        *)
(* specifications differ in the user events they admit:                    *)
(*   Spec        settings panel and text-to-image panel;                   *)
(*   SpecEditor  text-to-image and image-editor panels, every prompt text; *)
(*   SpecSafety  settings panel and both image panels, plain prompt texts; *)
(*   SpecStudio  animation and video panels next to text-to-image.         *)
(***************************************************************************)
EXTENDS Integers, Sequences, FiniteSets, TLC

VARIABLES fal_api_key, session_state, widgets, run

vars == <<fal_api_key, session_state, widgets, run>>

\* ------------------------------------------------------------------ bounds
MaxLen == 1
NumUrls == 2
NumFiles == 2

\* ------------------------------------------------------------ input values
None == "None"
Whitespace == {" ", "\t", "\n"}
Chars == {" ", "a"}
SeqsUpTo(S, n) == UNION {[1..k -> S] : k \in 0..n}
Prompts == SeqsUpTo(Chars, MaxLen)
\* an empty text box and a one-letter prompt
PlainPrompts == {<<>>, <<"a">>}
Urls == {"https://fal.media/img" \o ToString(i) : i \in 1..NumUrls}
Files == {"upload" \o ToString(i) : i \in 1..NumFiles}
ApiKeys == {"", "fal-key"}
SafetyLevels == {"Strict", "Moderate", "Creative"}
AspectRatios == {"1:1 (Square)", "16:9 (Landscape)", "9:16 (Portrait)"}
AnimationStyles == {"Talking Avatar (Kling Avatar v2)",
                    "Motion Transfer (Copy a dance/action)",
                    "Full Character Animation"}
VideoTypes == {"Image-to-Video (cinematic motion)", "Text-to-Video (full generation)"}

\* What fal_client.subscribe can do: raise, return a result without images,
\* or return a result whose first image carries a URL.
RemoteOutcomes == {[kind |-> "raise", url |-> None], [kind |-> "noimages", url |-> None]}
                    \cup {[kind |-> "ok", url |-> u] : u \in Urls}

\* What the outside world can answer during one run: the remote call's outcome
\* and, when it returned a URL, whether the asset fetch (requests.get) works.
\* Only the two buttons with a remote call ever ask.
Answers(btn) ==
    IF btn \in {"gen_image", "apply_edits"}
    THEN {[res |-> r, fetchOk |-> f] : r \in RemoteOutcomes, f \in BOOLEAN}
           \ {[res |-> r, fetchOk |-> TRUE] : r \in {x \in RemoteOutcomes : x.kind # "ok"}}
    ELSE {[res |-> [kind |-> "raise", url |-> None], fetchOk |-> FALSE]}

\* ------------------------------------------------------------ pure helpers
RECURSIVE LStrip(_)
LStrip(s) == IF s = <<>> THEN s
             ELSE IF Head(s) \in Whitespace THEN LStrip(Tail(s)) ELSE s

RECURSIVE RStrip(_)
RStrip(s) == IF s = <<>> THEN s
             ELSE IF s[Len(s)] \in Whitespace THEN RStrip(SubSeq(s, 1, Len(s) - 1)) ELSE s

\* str.strip()
Strip(s) == RStrip(LStrip(s))

\* `not prompt.strip()`
IsBlank(s) == Strip(s) = <<>>

\* isinstance(x, str): an image URL, as opposed to an uploaded file
IsStr(x) == x \in Urls

aspect_map == [a \in AspectRatios |->
                 CASE a = "1:1 (Square)" -> "1:1"
                   [] a = "16:9 (Landscape)" -> "16:9"
                   [] a = "9:16 (Portrait)" -> "9:16"]

\* variant: the level alone decides, the checkbox is ignored
SafetyTolerance_IgnoreToggle(safety_enabled, safety_level) ==
    IF safety_level = "Strict" THEN 5
    ELSE IF safety_level = "Moderate" THEN 7
    ELSE 9

\* the sidebar's if / elif / else
SafetyTolerance(safety_enabled, safety_level) ==
    IF safety_enabled /\ safety_level = "Strict" THEN 5
    ELSE IF safety_enabled /\ safety_level = "Moderate" THEN 7
    ELSE 9

\* `safety_tolerance if safety_enabled else 0.9`
RequestTolerance(safety_tolerance, safety_enabled) ==
    IF safety_enabled THEN safety_tolerance ELSE 9

\* variant: the key check never fires
KeyMissing_Never(key) == FALSE

\* `not fal_api_key`
KeyMissing(key) == key = ""

\* st.session_state.<key> = value
Store(ss, key, value) ==
    [k \in DOMAIN ss \cup {key} |-> IF k = key THEN value ELSE ss[k]]

NoState == [k \in {} |-> None]

Msg(level, text, detail) == [level |-> level, text |-> text, detail |-> detail]

\* the result of a panel that did nothing but render its widgets
Idle(ss) == [ss |-> ss, msgs |-> <<>>, requests |-> <<>>, writes |-> {},
             exc |-> "", returned |-> None, fetched |-> FALSE]

\* a panel assigns st.session_state.<key> = value
Write(r, key, value) ==
    [r EXCEPT !.ss = Store(@, key, value), !.writes = @ \cup {key}]

\* --------------------------------------------------------- TAB 1 (83-143)
Tab1Arguments(prompt, aspect_ratio, safety_tolerance, safety_enabled) ==
    [prompt |-> prompt,
     aspect_ratio |-> aspect_map[aspect_ratio],
     safety_tolerance |-> RequestTolerance(safety_tolerance, safety_enabled),
     seed |-> 42]

\* variant: the URL is stored as soon as the result is read, before the asset
\* fetch for the download button
Tab1Try_StoreBeforeFetch(ss, req, res, fetchOk) ==
    IF res.kind = "raise"
    THEN [Idle(ss) EXCEPT !.requests = <<req>>, !.exc = "job failed"]
    ELSE IF res.kind = "noimages"
    THEN [Idle(ss) EXCEPT !.requests = <<req>>, !.exc = "'images'"]
    ELSE LET stored == Write([Idle(ss) EXCEPT !.requests = <<req>>, !.returned = res.url],
                             "last_generated_image_url", res.url)
         IN IF ~fetchOk
            THEN [stored EXCEPT !.msgs = <<Msg("image", "generated", res.url)>>,
                                !.exc = "connection error"]
            ELSE [stored EXCEPT !.fetched = TRUE,
                                !.msgs = <<Msg("image", "generated", res.url),
                                           Msg("download", "Download Image", res.url),
                                           Msg("success", "Image generated! You can now use it in other tabs.", "")>>]

\* the body of the try block; exc is the text of the exception that left it
Tab1Try(ss, req, res, fetchOk) ==
    IF res.kind = "raise"
    THEN [Idle(ss) EXCEPT !.requests = <<req>>, !.exc = "job failed"]
    ELSE IF res.kind = "noimages"
    THEN [Idle(ss) EXCEPT !.requests = <<req>>, !.exc = "'images'"]
    ELSE IF ~fetchOk
    THEN [Idle(ss) EXCEPT !.requests = <<req>>, !.returned = res.url,
                          !.msgs = <<Msg("image", "generated", res.url)>>,
                          !.exc = "connection error"]
    ELSE [Write([Idle(ss) EXCEPT !.requests = <<req>>, !.returned = res.url, !.fetched = TRUE],
                "last_generated_image_url", res.url)
            EXCEPT !.msgs = <<Msg("image", "generated", res.url),
                              Msg("download", "Download Image", res.url),
                              Msg("success", "Image generated! You can now use it in other tabs.", "")>>]

\* `except Exception as e: st.error(f"Error: {str(e)}")`
Except(r) ==
    IF r.exc = "" THEN r
    ELSE [r EXCEPT !.msgs = Append(@, Msg("error", "Error: ", r.exc)), !.exc = ""]

Tab1(ss, w, safety_tolerance, btn, res, fetchOk) ==
    IF btn # "gen_image" THEN Idle(ss)
    ELSE IF IsBlank(w.prompt)
    THEN [Idle(ss) EXCEPT !.msgs = <<Msg("error", "Please enter a prompt", "")>>]
    ELSE Except(Tab1Try(ss,
                        [endpoint |-> "fal-ai/flux-pro/v1.1",
                         arguments |-> Tab1Arguments(w.prompt, w.aspect_ratio,
                                                     safety_tolerance, w.safety_enabled)],
                        res, fetchOk))

\* --------------------------------------------------------- TAB 2 (148-221)
\* lines 155-164: the uploader's value, replaced by the stored URL in the run
\* in which "Use Last Generated Image" reads True
SelectedImage(ss, uploaded_file, btn) ==
    IF "last_generated_image_url" \in DOMAIN ss /\ btn = "use_last"
    THEN ss["last_generated_image_url"]
    ELSE uploaded_file

\* lines 190-196
EditImageUrl(image_for_edit) ==
    IF IsStr(image_for_edit) THEN image_for_edit ELSE "placeholder_url"

Tab2Arguments(edit_prompt, safety_tolerance, safety_enabled, image_url) ==
    [prompt |-> edit_prompt,
     safety_tolerance |-> RequestTolerance(safety_tolerance, safety_enabled),
     num_inference_steps |-> 4]

\* variant: the edited URL is stored before the asset fetch
Tab2Try_StoreBeforeFetch(ss, image_for_edit, req, res, fetchOk) ==
    LET pre == IF IsStr(image_for_edit) THEN <<>>
               ELSE <<Msg("info", "Converting image for API...", "")>>
    IN IF res.kind = "raise"
       THEN [Idle(ss) EXCEPT !.requests = <<req>>, !.msgs = pre, !.exc = "job failed"]
       ELSE IF res.kind = "noimages"
       THEN [Idle(ss) EXCEPT !.requests = <<req>>, !.msgs = pre, !.exc = "'images'"]
       ELSE LET stored == Write([Idle(ss) EXCEPT !.requests = <<req>>, !.returned = res.url],
                                "last_edited_image_url", res.url)
            IN IF ~fetchOk
               THEN [stored EXCEPT !.msgs = Append(pre, Msg("image", "edited", res.url)),
                                   !.exc = "connection error"]
               ELSE [stored EXCEPT !.fetched = TRUE,
                                   !.msgs = pre \o <<Msg("image", "edited", res.url),
                                                     Msg("download", "Download Edited Image", res.url),
                                                     Msg("success", "Image edited!", "")>>]

\* variant: the edited URL is stored under the text-to-image panel's key
Tab2Try_WrongKey(ss, image_for_edit, req, res, fetchOk) ==
    LET pre == IF IsStr(image_for_edit) THEN <<>>
               ELSE <<Msg("info", "Converting image for API...", "")>>
    IN IF res.kind = "raise"
       THEN [Idle(ss) EXCEPT !.requests = <<req>>, !.msgs = pre, !.exc = "job failed"]
       ELSE IF res.kind = "noimages"
       THEN [Idle(ss) EXCEPT !.requests = <<req>>, !.msgs = pre, !.exc = "'images'"]
       ELSE IF ~fetchOk
       THEN [Idle(ss) EXCEPT !.requests = <<req>>, !.returned = res.url,
                             !.msgs = Append(pre, Msg("image", "edited", res.url)),
                             !.exc = "connection error"]
       ELSE [Write([Idle(ss) EXCEPT !.requests = <<req>>, !.returned = res.url, !.fetched = TRUE],
                   "last_generated_image_url", res.url)
               EXCEPT !.msgs = pre \o <<Msg("image", "edited", res.url),
                                        Msg("download", "Download Edited Image", res.url),
                                        Msg("success", "Image edited!", "")>>]

Tab2Try(ss, image_for_edit, req, res, fetchOk) ==
    LET pre == IF IsStr(image_for_edit) THEN <<>>
               ELSE <<Msg("info", "Converting image for API...", "")>>
    IN IF res.kind = "raise"
       THEN [Idle(ss) EXCEPT !.requests = <<req>>, !.msgs = pre, !.exc = "job failed"]
       ELSE IF res.kind = "noimages"
       THEN [Idle(ss) EXCEPT !.requests = <<req>>, !.msgs = pre, !.exc = "'images'"]
       ELSE IF ~fetchOk
       THEN [Idle(ss) EXCEPT !.requests = <<req>>, !.returned = res.url,
                             !.msgs = Append(pre, Msg("image", "edited", res.url)),
                             !.exc = "connection error"]
       ELSE [Write([Idle(ss) EXCEPT !.requests = <<req>>, !.returned = res.url, !.fetched = TRUE],
                   "last_edited_image_url", res.url)
               EXCEPT !.msgs = pre \o <<Msg("image", "edited", res.url),
                                        Msg("download", "Download Edited Image", res.url),
                                        Msg("success", "Image edited!", "")>>]

Tab2(ss, w, safety_tolerance, btn, res, fetchOk) ==
    LET image_for_edit == SelectedImage(ss, w.uploaded_file, btn)
    IN IF image_for_edit = None \/ btn # "apply_edits" THEN Idle(ss)
       ELSE IF IsBlank(w.edit_prompt)
       THEN [Idle(ss) EXCEPT !.msgs = <<Msg("error", "Please describe the changes you want", "")>>]
       ELSE Except(Tab2Try(ss, image_for_edit,
                           [endpoint |-> "fal-ai/flux-schnell",
                            arguments |-> Tab2Arguments(w.edit_prompt, safety_tolerance,
                                                        w.safety_enabled,
                                                        EditImageUrl(image_for_edit))],
                           res, fetchOk))

\* --------------------------------------------------------- TAB 3 (226-333)
Tab3(ss, w, btn) ==
    IF w.animation_style = "Talking Avatar (Kling Avatar v2)" /\ btn = "gen_avatar"
    THEN IF w.portrait = None \/ w.audio = None
         THEN [Idle(ss) EXCEPT !.msgs = <<Msg("error", "Please upload both portrait and audio", "")>>]
         ELSE Except([Idle(ss) EXCEPT !.msgs =
                <<Msg("info", "Processing: This uses Kling Avatar v2 API. Please wait...", ""),
                  Msg("warning", "For testing, use FAL's web UI at",
                      "https://fal.ai/models/fal-ai/kling-video/ai-avatar/v2/pro"),
                  Msg("info", "Quick alternative: 1. Go to FAL.ai -> Kling Avatar v2", "")>>])
    ELSE IF w.animation_style = "Motion Transfer (Copy a dance/action)" /\ btn = "transfer_motion"
    THEN IF w.char_image = None \/ w.ref_video = None
         THEN [Idle(ss) EXCEPT !.msgs =
                <<Msg("error", "Please upload both character image and reference video", "")>>]
         ELSE [Idle(ss) EXCEPT !.msgs =
                <<Msg("warning", "Use FAL.ai directly:",
                      "https://fal.ai/models/fal-ai/kling-video/v2.6/standard/motion-control")>>]
    ELSE Idle(ss)

\* variant: "Generate Video" submits a job instead of showing the help text
Tab4_CallsRemote(ss, w, btn) ==
    IF btn \in {"gen_i2v", "gen_t2v"}
    THEN [Idle(ss) EXCEPT !.requests = <<[endpoint |-> "fal-ai/kling-video/v2.6/standard",
                                         arguments |-> [prompt |-> w.text_prompt]]>>]
    ELSE Idle(ss)

\* --------------------------------------------------------- TAB 4 (338-397)
Tab4(ss, w, btn) ==
    IF w.video_type = "Image-to-Video (cinematic motion)"
    THEN IF w.uploaded_img # None /\ btn = "gen_i2v"
         THEN IF IsBlank(w.motion_prompt)
              THEN [Idle(ss) EXCEPT !.msgs = <<Msg("error", "Please describe the motion", "")>>]
              ELSE [Idle(ss) EXCEPT !.msgs =
                     <<Msg("warning", "Video generation requires FAL credit usage.", ""),
                       Msg("info", "Test at:",
                           "https://fal.ai/models/fal-ai/kling-video/v2.6/standard")>>]
         ELSE Idle(ss)
    ELSE IF btn = "gen_t2v"
         THEN IF IsBlank(w.text_prompt)
              THEN [Idle(ss) EXCEPT !.msgs = <<Msg("error", "Please enter a video description", "")>>]
              ELSE [Idle(ss) EXCEPT !.msgs =
                     <<Msg("warning", "Text-to-video generation requires FAL credit usage.", ""),
                       Msg("info", "Test with Kling 2.6 at:",
                           "https://fal.ai/models/fal-ai/kling-video/v2.6/standard")>>]
         ELSE Idle(ss)

\* ------------------------------------------------------ the whole script
DefaultWidgets ==
    [safety_enabled |-> TRUE, safety_level |-> "Moderate",
     prompt |-> <<>>, aspect_ratio |-> "1:1 (Square)",
     uploaded_file |-> None, edit_prompt |-> <<>>,
     animation_style |-> "Talking Avatar (Kling Avatar v2)",
     portrait |-> None, audio |-> None, char_image |-> None, ref_video |-> None,
     video_type |-> "Image-to-Video (cinematic motion)",
     uploaded_img |-> None, motion_prompt |-> <<>>, text_prompt |-> <<>>]

\* the widgets and buttons a complete run puts on the page
Rendered(ss, w, image_for_edit) ==
    {"safety_enabled", "safety_level", "prompt", "aspect_ratio", "gen_image",
     "edit_uploader", "animation_style", "video_type"}
    \cup (IF "last_generated_image_url" \in DOMAIN ss THEN {"use_last"} ELSE {})
    \cup (IF image_for_edit # None THEN {"edit_prompt", "apply_edits"} ELSE {})
    \cup (IF w.animation_style = "Talking Avatar (Kling Avatar v2)"
          THEN {"avatar_portrait", "avatar_audio", "gen_avatar"}
          ELSE IF w.animation_style = "Motion Transfer (Copy a dance/action)"
          THEN {"motion_char", "motion_ref", "transfer_motion"}
          ELSE {})
    \cup (IF w.video_type = "Image-to-Video (cinematic motion)"
          THEN {"i2v_image"} \cup (IF w.uploaded_img # None
                                   THEN {"motion_prompt", "gen_i2v"} ELSE {})
          ELSE {"text_prompt", "gen_t2v"})

\* a widget that the run did not render goes back to its default value
Retained(w, rendered) ==
    [w EXCEPT
       !.edit_prompt = IF "edit_prompt" \in rendered THEN @ ELSE <<>>,
       !.portrait = IF "avatar_portrait" \in rendered THEN @ ELSE None,
       !.audio = IF "avatar_audio" \in rendered THEN @ ELSE None,
       !.char_image = IF "motion_char" \in rendered THEN @ ELSE None,
       !.ref_video = IF "motion_ref" \in rendered THEN @ ELSE None,
       !.uploaded_img = IF "i2v_image" \in rendered THEN @ ELSE None,
       !.motion_prompt = IF "motion_prompt" \in rendered THEN @ ELSE <<>>,
       !.text_prompt = IF "text_prompt" \in rendered THEN @ ELSE <<>>]

\* lines 22-25: the run ends at st.stop()
Stopped(ss, w, btn) ==
    [ss |-> ss,
     widgets |-> DefaultWidgets,
     run |-> [clicked |-> btn, edit_prompt |-> w.edit_prompt, stopped |-> TRUE, configured |-> FALSE, completed |-> FALSE,
              safety_tolerance |-> 0, active_safety_level |-> None,
              image_for_edit |-> None, image_url |-> None,
              messages |-> <<Msg("error", "FAL API key not found. Add it to .streamlit/secrets.toml", "")>>,
              requests |-> <<>>, result_url |-> None, fetched |-> FALSE,
              rendered |-> {}, ss_writes |-> {}, ss_reads |-> {}]]

\* One run of app.py on the widget values w sent by the front end, btn being
\* the button the user clicked ("none": no button), the remote service
\* answering res, and the asset fetch for the download button succeeding or
\* not.  run.clicked and run.edit_prompt keep what the front end sent.
Script(key, ss, w, btn, res, fetchOk) ==
    IF KeyMissing(key) THEN Stopped(ss, w, btn)
    ELSE
    LET safety_tolerance == SafetyTolerance(w.safety_enabled, w.safety_level)
        t1 == Tab1(ss, w, safety_tolerance, btn, res, fetchOk)
        image_for_edit == SelectedImage(t1.ss, w.uploaded_file, btn)
        t2 == Tab2(t1.ss, w, safety_tolerance, btn, res, fetchOk)
        t3 == Tab3(t2.ss, w, btn)
        t4 == Tab4(t3.ss, w, btn)
        rendered == Rendered(t1.ss, w, image_for_edit)
    IN [ss |-> t4.ss,
        widgets |-> Retained(w, rendered),
        run |-> [clicked |-> btn, edit_prompt |-> w.edit_prompt, stopped |-> FALSE, configured |-> TRUE,
                 completed |-> t1.exc = "" /\ t2.exc = "" /\ t3.exc = "" /\ t4.exc = "",
                 safety_tolerance |-> safety_tolerance,
                 active_safety_level |-> w.safety_level,
                 image_for_edit |-> image_for_edit,
                 image_url |-> IF t2.requests # <<>> THEN EditImageUrl(image_for_edit) ELSE None,
                 messages |-> t1.msgs \o t2.msgs \o t3.msgs \o t4.msgs,
                 requests |-> t1.requests \o t2.requests \o t3.requests \o t4.requests,
                 result_url |-> IF t1.requests # <<>> THEN t1.returned ELSE t2.returned,
                 fetched |-> t1.fetched \/ t2.fetched,
                 rendered |-> rendered,
                 ss_writes |-> {<<"tab1", k>> : k \in t1.writes} \cup {<<"tab2", k>> : k \in t2.writes}
                               \cup {<<"tab3", k>> : k \in t3.writes} \cup {<<"tab4", k>> : k \in t4.writes},
                 ss_reads |-> {<<"tab2", "last_generated_image_url">>}]]

\* ------------------------------------------------------------------- Init
\* The first run of a new session: default widget values, no button clicked.
Init ==
    /\ fal_api_key \in ApiKeys
    /\ LET out == Script(fal_api_key, NoState, DefaultWidgets, "none",
                         [kind |-> "raise", url |-> None], FALSE)
       IN /\ session_state = out.ss
          /\ widgets = out.widgets
          /\ run = out.run

\* ---------------------------------------------------------------- actions
\* the front end sends the widget values w and the clicked button; the
\* script runs to its end
Rerun(w, btn) ==
    \E a \in Answers(btn) :
        LET out == Script(fal_api_key, session_state, w, btn, a.res, a.fetchOk)
        IN /\ fal_api_key' = fal_api_key
           /\ session_state' = out.ss
           /\ widgets' = out.widgets
           /\ run' = out.run

\* A widget or a button takes part in an event only if the last run drew it on
\* the page (run.rendered).

\* "Rerun" from the Streamlit menu
Refresh == \E w \in {widgets} : Rerun(w, "none")

ToggleSafety ==
    /\ "safety_enabled" \in run.rendered
    /\ Rerun([widgets EXCEPT !.safety_enabled = ~@], "none")

SetSafetyLevel ==
    /\ "safety_level" \in run.rendered
    /\ \E v \in SafetyLevels \ {widgets.safety_level} :
           Rerun([widgets EXCEPT !.safety_level = v], "none")

SetPrompt ==
    /\ "prompt" \in run.rendered
    /\ \E v \in Prompts \ {widgets.prompt} : Rerun([widgets EXCEPT !.prompt = v], "none")

SetAspectRatio ==
    /\ "aspect_ratio" \in run.rendered
    /\ \E v \in AspectRatios \ {widgets.aspect_ratio} :
           Rerun([widgets EXCEPT !.aspect_ratio = v], "none")

\* as SetPrompt, the text being a letter or nothing
TypePrompt ==
    /\ "prompt" \in run.rendered
    /\ \E v \in PlainPrompts \ {widgets.prompt} : Rerun([widgets EXCEPT !.prompt = v], "none")

ClickGenerateImage ==
    /\ "gen_image" \in run.rendered
    /\ Rerun(widgets, "gen_image")

\* a file is put into the uploader, replaced or removed
UploadFile ==
    /\ "edit_uploader" \in run.rendered
    /\ \E v \in (Files \cup {None}) \ {widgets.uploaded_file} :
           Rerun([widgets EXCEPT !.uploaded_file = v], "none")

ClickUseLast ==
    /\ "use_last" \in run.rendered
    /\ Rerun(widgets, "use_last")

SetEditPrompt ==
    /\ "edit_prompt" \in run.rendered
    /\ \E v \in Prompts \ {widgets.edit_prompt} :
           Rerun([widgets EXCEPT !.edit_prompt = v], "none")

\* the click may arrive together with the text just typed into the edit prompt
ClickApplyEdits ==
    /\ "apply_edits" \in run.rendered
    /\ \E p \in Prompts : Rerun([widgets EXCEPT !.edit_prompt = p], "apply_edits")

\* as SetEditPrompt, the text being a letter or nothing
TypeEditPrompt ==
    /\ "edit_prompt" \in run.rendered
    /\ \E v \in PlainPrompts \ {widgets.edit_prompt} :
           Rerun([widgets EXCEPT !.edit_prompt = v], "none")

\* the click arrives with the edit prompt as the page shows it
ClickApplyShown ==
    /\ "apply_edits" \in run.rendered
    /\ Rerun(widgets, "apply_edits")

SetAnimationStyle ==
    /\ "animation_style" \in run.rendered
    /\ \E v \in AnimationStyles \ {widgets.animation_style} :
           Rerun([widgets EXCEPT !.animation_style = v], "none")

UploadPortrait ==
    /\ "avatar_portrait" \in run.rendered
    /\ \E v \in (Files \cup {None}) \ {widgets.portrait} :
           Rerun([widgets EXCEPT !.portrait = v], "none")

UploadAudio ==
    /\ "avatar_audio" \in run.rendered
    /\ \E v \in (Files \cup {None}) \ {widgets.audio} :
           Rerun([widgets EXCEPT !.audio = v], "none")

ClickGenerateAvatar ==
    /\ "gen_avatar" \in run.rendered
    /\ Rerun(widgets, "gen_avatar")

UploadCharImage ==
    /\ "motion_char" \in run.rendered
    /\ \E v \in (Files \cup {None}) \ {widgets.char_image} :
           Rerun([widgets EXCEPT !.char_image = v], "none")

UploadRefVideo ==
    /\ "motion_ref" \in run.rendered
    /\ \E v \in (Files \cup {None}) \ {widgets.ref_video} :
           Rerun([widgets EXCEPT !.ref_video = v], "none")

ClickTransferMotion ==
    /\ "transfer_motion" \in run.rendered
    /\ Rerun(widgets, "transfer_motion")

SetVideoType ==
    /\ "video_type" \in run.rendered
    /\ \E v \in VideoTypes \ {widgets.video_type} :
           Rerun([widgets EXCEPT !.video_type = v], "none")

UploadImg ==
    /\ "i2v_image" \in run.rendered
    /\ \E v \in (Files \cup {None}) \ {widgets.uploaded_img} :
           Rerun([widgets EXCEPT !.uploaded_img = v], "none")

SetMotionPrompt ==
    /\ "motion_prompt" \in run.rendered
    /\ \E v \in Prompts \ {widgets.motion_prompt} :
           Rerun([widgets EXCEPT !.motion_prompt = v], "none")

ClickGenerateI2V ==
    /\ "gen_i2v" \in run.rendered
    /\ Rerun(widgets, "gen_i2v")

SetTextPrompt ==
    /\ "text_prompt" \in run.rendered
    /\ \E v \in Prompts \ {widgets.text_prompt} :
           Rerun([widgets EXCEPT !.text_prompt = v], "none")

ClickGenerateT2V ==
    /\ "gen_t2v" \in run.rendered
    /\ Rerun(widgets, "gen_t2v")

\* the settings panel and the text-to-image panel
Next ==
    \/ Refresh
    \/ ToggleSafety
    \/ SetSafetyLevel
    \/ SetPrompt
    \/ SetAspectRatio
    \/ ClickGenerateImage

Spec == Init /\ [][Next]_vars

\* the two image panels, with every prompt text
NextEditor ==
    \/ Refresh
    \/ SetPrompt
    \/ ClickGenerateImage
    \/ UploadFile
    \/ ClickUseLast
    \/ SetEditPrompt
    \/ ClickApplyEdits

SpecEditor == Init /\ [][NextEditor]_vars

\* the settings panel with the two image panels, with plain prompt texts
NextSafety ==
    \/ ToggleSafety
    \/ SetSafetyLevel
    \/ TypePrompt
    \/ ClickGenerateImage
    \/ UploadFile
    \/ ClickUseLast
    \/ TypeEditPrompt
    \/ ClickApplyShown

SpecSafety == Init /\ [][NextSafety]_vars

\* the animation and video panels, with the text-to-image panel on plain
\* prompt texts
NextStudio ==
    \/ TypePrompt
    \/ ClickGenerateImage
    \/ SetAnimationStyle
    \/ UploadPortrait
    \/ UploadAudio
    \/ ClickGenerateAvatar
    \/ UploadCharImage
    \/ UploadRefVideo
    \/ ClickTransferMotion
    \/ SetVideoType
    \/ UploadImg
    \/ SetMotionPrompt
    \/ ClickGenerateI2V
    \/ SetTextPrompt
    \/ ClickGenerateT2V

SpecStudio == Init /\ [][NextStudio]_vars

\* ================================================================ claims
Gen == "last_generated_image_url"
Edited == "last_edited_image_url"

\* empty, or nothing but whitespace
AllSpace(p) == \A i \in 1..Len(p) : p[i] \in Whitespace

IsGenerate(req) == req.endpoint = "fal-ai/flux-pro/v1.1"
IsEdit(req) == req.endpoint = "fal-ai/flux-schnell"

\* the run sent a text-to-image job and the service returned an image URL
GenerationReturned == run.requests # <<>> /\ IsGenerate(run.requests[1]) /\ run.result_url # None
\* ... and the asset fetch for the download button succeeded as well
GenerationFetched == GenerationReturned /\ run.fetched

ErrorsShown == {i \in 1..Len(run.messages) : run.messages[i].level = "error"}

\* the key keeps its presence and its value over the step
GenKept == /\ (Gen \in DOMAIN session_state') = (Gen \in DOMAIN session_state)
           /\ Gen \in DOMAIN session_state => session_state'[Gen] = session_state[Gen]

\* C1 (as stated): last-write-wins.  The key is absent when the session
\* starts; a run in which the text-to-image call returns an image URL leaves
\* that URL in last_generated_image_url; any other run leaves the key as it
\* was (absent stays absent, a value stays).
C1_LastWriteWins ==
    /\ Gen \notin DOMAIN session_state
    /\ [][IF GenerationReturned'
          THEN Gen \in DOMAIN session_state' /\ session_state'[Gen] = run'.result_url
          ELSE GenKept]_vars

\* C1 (amended): the same, a generation counting as successful only when the
\* asset fetch for the download button succeeded too; and the key, once
\* present, stays present.
C1_LastWriteWinsFetched ==
    /\ Gen \notin DOMAIN session_state
    /\ [][/\ IF GenerationFetched'
             THEN Gen \in DOMAIN session_state' /\ session_state'[Gen] = run'.result_url
             ELSE GenKept
          /\ Gen \in DOMAIN session_state => Gen \in DOMAIN session_state']_vars

\* a generation returned a URL, its fetch failed, and the earlier URL is kept
C1_Witness ==
    /\ GenerationReturned /\ ~run.fetched
    /\ Gen \in DOMAIN session_state
    /\ session_state[Gen] # run.result_url

\* C2: after "Use Last Generated Image" with no file uploaded, a click on
\* "Apply Edits" with a non-blank edit prompt in the next run issues exactly
\* one edit request, made for the last generated image URL.
C2_UrlFlowsToEditor ==
    [][(/\ run.clicked = "use_last"
        /\ Gen \in DOMAIN session_state
        /\ widgets.uploaded_file = None
        /\ run'.clicked = "apply_edits"
        /\ ~AllSpace(run'.edit_prompt))
       => (/\ Len(run'.requests) = 1
           /\ IsEdit(run'.requests[1])
           /\ run'.image_for_edit = session_state[Gen]
           /\ run'.image_url = session_state[Gen])]_vars

\* C3: an edit request carries the edit prompt and depends on the selected
\* image: the same click made for any other image would have sent different
\* arguments.
C3_EditForwardsImage ==
    \A i \in 1..Len(run.requests) :
        IsEdit(run.requests[i]) =>
            /\ run.requests[i].arguments.prompt = run.edit_prompt
            /\ \A other \in (Files \cup Urls) \ {run.image_for_edit} :
                   Tab2Arguments(run.edit_prompt, run.safety_tolerance,
                                 widgets.safety_enabled, EditImageUrl(other))
                     # run.requests[i].arguments

\* the tolerance the sidebar's level names
LevelTolerance(level) ==
    CASE level = "Strict" -> 5 [] level = "Moderate" -> 7 [] level = "Creative" -> 9

\* the ratio a selection of the "Aspect Ratio" box shows
ShownRatio(selection) ==
    CASE selection = "1:1 (Square)" -> "1:1"
      [] selection = "16:9 (Landscape)" -> "16:9"
      [] selection = "9:16 (Portrait)" -> "9:16"

\* C4: a text-to-image request carries the prompt as typed, the ratio of the
\* displayed selection, and the tolerance of the level displayed as "Active
\* Safety Level".
C4_DisplayedParameters ==
    \A i \in 1..Len(run.requests) :
        IsGenerate(run.requests[i]) =>
            /\ run.requests[i].arguments.prompt = widgets.prompt
            /\ run.requests[i].arguments.aspect_ratio = ShownRatio(widgets.aspect_ratio)
            /\ run.requests[i].arguments.safety_tolerance = LevelTolerance(run.active_safety_level)

\* C5: when a step of a try block raises (a job was sent and the block did not
\* reach its end), exactly one error message is shown and it carries the
\* exception text, at most one job was sent, the run reaches the end of the
\* script, and session state is what it was before the click.
C5_FailureCaughtOnce ==
    [][(run'.requests # <<>> /\ ~run'.fetched)
       => (/\ Cardinality(ErrorsShown') = 1
           /\ \A i \in ErrorsShown' :
                  /\ run'.messages[i].text = "Error: "
                  /\ run'.messages[i].detail =
                       (IF run'.result_url # None THEN "connection error"
                        ELSE IF run'.messages[i].detail = "job failed" THEN "job failed"
                        ELSE "'images'")
           /\ Len(run'.requests) = 1
           /\ run'.completed
           /\ run'.ss_writes = {}
           /\ session_state' = session_state)]_vars

\* the editor's asset fetch failed after an earlier edit had been stored
C5_Witness ==
    /\ run.clicked = "apply_edits"
    /\ run.requests # <<>> /\ run.result_url # None /\ ~run.fetched
    /\ Edited \in DOMAIN session_state
    /\ session_state[Edited] # run.result_url

StubButtons == {"gen_avatar", "transfer_motion", "gen_i2v", "gen_t2v"}

ProviderPages == {"https://fal.ai/models/fal-ai/kling-video/ai-avatar/v2/pro",
                  "https://fal.ai/models/fal-ai/kling-video/v2.6/standard/motion-control",
                  "https://fal.ai/models/fal-ai/kling-video/v2.6/standard"}

HelpShown ==
    /\ ErrorsShown = {}
    /\ \E i \in 1..Len(run.messages) :
           /\ run.messages[i].level \in {"warning", "info"}
           /\ run.messages[i].detail \in ProviderPages

StubInputsPresent ==
    CASE run.clicked = "gen_avatar" -> widgets.portrait # None /\ widgets.audio # None
      [] run.clicked = "transfer_motion" -> widgets.char_image # None /\ widgets.ref_video # None
      [] run.clicked = "gen_i2v" -> widgets.uploaded_img # None /\ ~AllSpace(widgets.motion_prompt)
      [] run.clicked = "gen_t2v" -> ~AllSpace(widgets.text_prompt)
      [] OTHER -> FALSE

\* C6: a click on an animation or video button sends no job and leaves
\* session state as it was; with the required inputs present it shows the
\* help text that points to the provider's hosted page.
C6_StubsDoNoWork ==
    [][run'.clicked \in StubButtons
       => (/\ run'.requests = <<>>
           /\ run'.ss_writes = {}
           /\ session_state' = session_state
           /\ StubInputsPresent' => HelpShown')]_vars

\* "Generate Video" clicked with an image and a motion prompt, in a session
\* that already holds a generated image URL
C6_Witness ==
    /\ run.clicked = "gen_i2v"
    /\ StubInputsPresent /\ HelpShown
    /\ Gen \in DOMAIN session_state

\* C7 (as stated): last_generated_image_url is the only key, written by the
\* text-to-image panel only and read by the image-editor panel only.
C7_SingleKey ==
    /\ DOMAIN session_state \subseteq {Gen}
    /\ run.ss_writes \subseteq {<<"tab1", Gen>>}
    /\ run.ss_reads \subseteq {<<"tab2", Gen>>}

\* C7 (amended): two keys; last_generated_image_url is written by the
\* text-to-image panel only and read by the image-editor panel only,
\* last_edited_image_url is written by the image-editor panel only and never
\* read.
C7_TwoKeys ==
    /\ DOMAIN session_state \subseteq {Gen, Edited}
    /\ run.ss_writes \subseteq {<<"tab1", Gen>>, <<"tab2", Edited>>}
    /\ run.ss_reads \subseteq {<<"tab2", Gen>>}

\* an edit has just been stored next to a generated image URL
C7_Witness ==
    /\ run.ss_writes = {<<"tab2", Edited>>}
    /\ DOMAIN session_state = {Gen, Edited}

\* C8: the computed tolerance is 0.5 exactly for enabled and Strict, 0.7
\* exactly for enabled and Moderate, 0.9 otherwise; every request carries the
\* computed tolerance.
C8_ToleranceMapping ==
    ~run.stopped =>
        /\ (run.safety_tolerance = 5) = (widgets.safety_enabled /\ widgets.safety_level = "Strict")
        /\ (run.safety_tolerance = 7) = (widgets.safety_enabled /\ widgets.safety_level = "Moderate")
        /\ (run.safety_tolerance = 9) = (~widgets.safety_enabled \/ widgets.safety_level = "Creative")
        /\ \A i \in 1..Len(run.requests) :
               /\ run.requests[i].arguments.safety_tolerance = run.safety_tolerance
               /\ run.requests[i].arguments.safety_tolerance \in {5, 7, 9}

\* an edit request sent with safety disabled and the level at Strict
C8_Witness ==
    /\ run.requests # <<>> /\ IsEdit(run.requests[1])
    /\ ~widgets.safety_enabled /\ widgets.safety_level = "Strict"
    /\ run.requests[1].arguments.safety_tolerance = 9

\* C9: a click on "Generate Image" or "Apply Edits" with a blank prompt shows
\* an error, sends no job and leaves session state as it was; a job is sent
\* only in a run whose corresponding prompt is not blank.
C9_BlankPromptStopsHere ==
    [][/\ (run'.clicked = "gen_image" /\ AllSpace(widgets'.prompt))
            => (ErrorsShown' # {} /\ run'.requests = <<>> /\ session_state' = session_state)
       /\ (run'.clicked = "apply_edits" /\ AllSpace(run'.edit_prompt))
            => (ErrorsShown' # {} /\ run'.requests = <<>> /\ session_state' = session_state)
       /\ \A i \in 1..Len(run'.requests) :
              /\ IsGenerate(run'.requests[i]) => ~AllSpace(widgets'.prompt)
              /\ IsEdit(run'.requests[i]) => ~AllSpace(run'.edit_prompt)]_vars

\* C10: with the API key missing the run shows the error and stops: the client
\* is not configured, nothing is rendered, no job is sent and session state
\* is never written.
C10_NoKeyNoWork ==
    fal_api_key = "" =>
        /\ run.stopped /\ ~run.configured /\ ~run.completed
        /\ ErrorsShown = {1} /\ Len(run.messages) = 1
        /\ run.rendered = {}
        /\ run.requests = <<>>
        /\ run.ss_writes = {}
        /\ DOMAIN session_state = {}

\* a run that stopped at the key check
C10_Witness ==
    /\ fal_api_key = ""
    /\ run.stopped
    /\ run.messages[1].level = "error"

====
